---------------------------- MODULE Spec2Model ----------------------------
(***************************************************************************)
(* A model of dags/bitcoinetl/build_load_dag.py: the query loader          *)
(* (read_file), the schema loader                                          *)
(* (read_bigquery_schema_from_json_recursive), the task graph built by     *)
(* build_load_dag and its execution under the retry policy, and the        *)
(* staged materialization procedure (enrich_table / enrich_view).          *)
(*                                                                         *)
(* Four specifications share the module, one per part of the program:      *)
(*   SpecReadFile  read_file applied to bounded templates and environments *)
(*   SpecSchema    the schema loader applied to bounded schema trees       *)
(*   SpecDag       build_load_dag followed by one run of the task graph    *)
(*   Spec          executions of the enrichment procedure on the warehouse *)
(* Each specification leaves the variables of the other parts untouched.   *)
(***************************************************************************)
EXTENDS Integers, Sequences, FiniteSets, TLC

VARIABLES
    \* read_file
    rf_pc, rf_file, rf_env, rf_todo, rf_content,
    \* read_bigquery_schema_from_json_recursive
    sc_pc, sc_input, sc_result,
    \* build_load_dag and one run of the graph it builds
    chain, build_pc, dag_tasks, dag_upstream,
    ti_state, try_number, flaky, missing_files, gcs_object, load_jobs,
    \* executions of enrich_task on the warehouse
    run, clock, temp_tables, creator, dest_tables, raw_tables, bq_jobs, faults

rfVars == <<rf_pc, rf_file, rf_env, rf_todo, rf_content>>
scVars == <<sc_pc, sc_input, sc_result>>
dagVars == <<chain, build_pc, dag_tasks, dag_upstream,
             ti_state, try_number, flaky, missing_files, gcs_object,
             load_jobs>>
enrVars == <<run, clock, temp_tables, creator, dest_tables, raw_tables,
             bq_jobs, faults>>
vars == <<rfVars, scVars, dagVars, enrVars>>

(***************************************************************************)
(* Text.  A string is a sequence of one-character strings.                 *)
(***************************************************************************)

\* Python's None, where a dictionary lookup finds no key.
None == "None"

RECURSIVE Concat(_)
Concat(ss) == IF ss = <<>> THEN <<>> ELSE Head(ss) \o Concat(Tail(ss))

\* s[i..] starts with p
StartsWithAt(s, i, p) ==
    /\ i + Len(p) - 1 <= Len(s)
    /\ SubSeq(s, i, i + Len(p) - 1) = p

IsSubstring(p, s) == \E i \in 1..(Len(s) + 1) : StartsWithAt(s, i, p)

\* '{{{{{key}}}}}'.format(key=key): two escaped braces on each side of the key
Token(key) == <<"{", "{">> \o key \o <<"}", "}">>

\* str.replace(old, new) for a non-empty old: the occurrences of old are found
\* from the left, without overlap, and the replacement is not scanned again
RECURSIVE StrReplaceFirstOnly(_, _, _)
StrReplaceFirstOnly(s, old, new) ==
    IF Len(s) < Len(old) THEN s
    ELSE IF StartsWithAt(s, 1, old)
         THEN new \o SubSeq(s, Len(old) + 1, Len(s))
         ELSE <<Head(s)>> \o StrReplaceFirstOnly(Tail(s), old, new)

RECURSIVE StrReplace(_, _, _)
StrReplace(s, old, new) ==
    IF Len(s) < Len(old) THEN s
    ELSE IF StartsWithAt(s, 1, old)
         THEN new \o StrReplace(SubSeq(s, Len(old) + 1, Len(s)), old, new)
         ELSE <<Head(s)>> \o StrReplace(Tail(s), old, new)

(***************************************************************************)
(* read_file(filepath, environment)                                        *)
(***************************************************************************)

\* the longest template is the concatenation of this many pieces
MaxPieces == 3

Keys == {<<"a">>, <<"b">>}

Pieces ==
    {<<"x">>, <<"b">>, <<"{", "{">>, <<"}", "}">>} \cup {Token(k) : k \in Keys}

Values == {<<>>, <<"x">>, <<"b">>, Token(<<"b">>)}

PieceSeqs == UNION {[1..n -> Pieces] : n \in 0..MaxPieces}

Templates == {Concat(ps) : ps \in PieceSeqs}

Environments == UNION {[ks -> Values] : ks \in SUBSET Keys}

\* open(filepath).read(), and the environment argument (None becomes {})
InitReadFile ==
    /\ rf_pc = "loop"
    /\ rf_file \in Templates
    /\ rf_env \in Environments
    /\ rf_todo = DOMAIN rf_env
    /\ rf_content = rf_file
    \* nothing else runs
    /\ sc_pc = "idle" /\ sc_input = <<>> /\ sc_result = <<>>
    /\ chain = "bitcoin" /\ build_pc = 0 /\ dag_tasks = {}
    /\ dag_upstream = <<>> /\ ti_state = <<>> /\ try_number = <<>>
    /\ flaky = {} /\ missing_files = {} /\ gcs_object = <<>> /\ load_jobs = <<>>
    /\ run = <<>> /\ clock = 0 /\ temp_tables = <<>> /\ creator = <<>>
    /\ dest_tables = <<>> /\ raw_tables = <<>> /\ bq_jobs = {} /\ faults = 0

\* one iteration of `for key, value in environment.items()`; the order in
\* which a dictionary yields its items is not fixed by the program
ReplaceKey(key) ==
    /\ rf_pc = "loop"
    /\ key \in rf_todo
    /\ rf_content' = StrReplace(rf_content, Token(key), rf_env[key])
    /\ rf_todo' = rf_todo \ {key}
    /\ UNCHANGED <<rf_pc, rf_file, rf_env>>

\* return content
ReadFileReturn ==
    /\ rf_pc = "loop"
    /\ rf_todo = {}
    /\ rf_pc' = "done"
    /\ UNCHANGED <<rf_file, rf_env, rf_todo, rf_content>>

(***************************************************************************)
(* read_bigquery_schema_from_json_recursive(json_schema)                   *)
(***************************************************************************)

\* nesting depth and number of fields per level of the schema descriptions
MaxDepth == 2
MaxWidth == 2

FieldNames == <<"a", "b", "c", "d">>
JsonTypes == {None, "STRING", "RECORD", "record"}
JsonModes == {None, "REPEATED"}

\* the field objects at position i of a list, nested to depth d; a field
\* object is a dictionary, a missing key reads as None and a missing or
\* empty 'fields' as the empty list (both are falsy)
RECURSIVE JsonSchemas(_)
JsonFieldsAt(i, d) ==
    [name : {FieldNames[i]}, type : JsonTypes, mode : JsonModes,
     fields : IF d <= 1 THEN {<<>>} ELSE JsonSchemas(d - 1)]

JsonSchemas(d) ==
    UNION {{s \in [1..n -> UNION {JsonFieldsAt(i, d) : i \in 1..n}] :
               \A i \in 1..n : s[i].name = FieldNames[i]} : n \in 0..MaxWidth}

\* str.lower() on the type names used here
Lower(t) == IF t = "RECORD" THEN "record" ELSE IF t = "STRING" THEN "string" ELSE t

\* dict.get(key, default)
Get(v, default) == IF v = None THEN default ELSE v

\* SchemaField(name=, field_type=, mode=, description=, fields=)
SchemaField(field, nested) ==
    [name |-> field.name,
     field_type |-> Get(field.type, "STRING"),
     mode |-> Get(field.mode, "NULLABLE"),
     fields |-> nested]

\* the value of a call: the list it returns, or that it raised
Returned(list) == [raised |-> FALSE, value |-> list]
Raises == [raised |-> TRUE, value |-> <<>>]

\* field.get('type').lower() == 'record' and field.get('fields'):
\* None has no attribute 'lower', so a field without a type raises
RECURSIVE read_bigquery_schema_from_json_recursive(_)
ParseField(field) ==
    IF field.type = None THEN Raises
    ELSE IF Lower(field.type) = "record" /\ field.fields # <<>>
         THEN LET nested == read_bigquery_schema_from_json_recursive(field.fields)
              IN  IF nested.raised THEN Raises
                  ELSE Returned(SchemaField(field, nested.value))
         ELSE Returned(SchemaField(field, <<>>))

read_bigquery_schema_from_json_recursive(json_schema) ==
    LET parsed == [i \in 1..Len(json_schema) |-> ParseField(json_schema[i])]
    IN  IF \E i \in 1..Len(json_schema) : parsed[i].raised
        THEN Raises
        ELSE Returned([i \in 1..Len(json_schema) |-> parsed[i].value])

InitSchema ==
    /\ sc_pc = "call"
    /\ sc_input \in JsonSchemas(MaxDepth)
    /\ sc_result = <<>>
    \* nothing else runs
    /\ rf_pc = "idle" /\ rf_file = <<>> /\ rf_env = <<>>
    /\ rf_todo = {} /\ rf_content = <<>>
    /\ chain = "bitcoin" /\ build_pc = 0 /\ dag_tasks = {}
    /\ dag_upstream = <<>> /\ ti_state = <<>> /\ try_number = <<>>
    /\ flaky = {} /\ missing_files = {} /\ gcs_object = <<>> /\ load_jobs = <<>>
    /\ run = <<>> /\ clock = 0 /\ temp_tables = <<>> /\ creator = <<>>
    /\ dest_tables = <<>> /\ raw_tables = <<>> /\ bq_jobs = {} /\ faults = 0

\* the call returns the list of fields
SchemaReturn ==
    /\ sc_pc = "call"
    /\ ~read_bigquery_schema_from_json_recursive(sc_input).raised
    /\ sc_result' = read_bigquery_schema_from_json_recursive(sc_input).value
    /\ sc_pc' = "returned"
    /\ UNCHANGED sc_input

\* the call raises AttributeError
SchemaRaise ==
    /\ sc_pc = "call"
    /\ read_bigquery_schema_from_json_recursive(sc_input).raised
    /\ sc_pc' = "raised"
    /\ UNCHANGED <<sc_input, sc_result>>

(***************************************************************************)
(* build_load_dag: the task graph                                          *)
(***************************************************************************)

Chains == {"bitcoin", "dogecoin", "zcash"}

RawEntities == {"blocks", "transactions"}

\* task_id='wait_latest_{task}', 'load_{task}', 'enrich_{task}', 'verify_{task}'
TaskNames ==
    {"blocks", "transactions", "inputs", "outputs",
     "blocks_count", "blocks_have_latest", "transactions_count",
     "transactions_have_latest", "transactions_fees",
     "coinbase_transactions_count", "transaction_inputs_count",
     "transaction_outputs_count", "transaction_inputs_count_empty",
     "transaction_outputs_count_empty"}
WaitIdOf == [task \in TaskNames |-> "wait_latest_" \o task]
LoadIdOf == [task \in TaskNames |-> "load_" \o task]
EnrichIdOf == [task \in TaskNames |-> "enrich_" \o task]
VerifyIdOf == [task \in TaskNames |-> "verify_" \o task]
WaitId(task) == WaitIdOf[task]
LoadId(task) == LoadIdOf[task]
EnrichId(task) == EnrichIdOf[task]
VerifyId(task) == VerifyIdOf[task]

LoadCall(task) == [op |-> "load", task |-> task, dependencies |-> {}]
EnrichCallAfterLoadOfBlocks(task, deps) ==
    [op |-> "enrich", task |-> task, dependencies |-> deps \cup {LoadIdOf["blocks"]}]
EnrichCall(task, deps) == [op |-> "enrich", task |-> task, dependencies |-> deps]
VerifyCallAfterInputs(task, deps) ==
    [op |-> "verify", task |-> task, dependencies |-> deps \cup {EnrichIdOf["inputs"]}]
VerifyCall(task, deps) == [op |-> "verify", task |-> task, dependencies |-> deps]

\* `if chain != 'dogecoin'`: fees in Dogecoin can be negative
IncludesFeesCheckAlways(c) == TRUE
IncludesFeesCheck(c) == c # "dogecoin"

\* `if chain != 'zcash'`: Zcash can have empty inputs and outputs
IncludesEmptyChecks(c) == c # "zcash"

\* dependencies=[enrich_transactions_task] of the inputs and outputs views
ViewDependenciesOnLoad == {LoadId("transactions")}
ViewDependencies == {EnrichId("transactions")}

\* [enrich_blocks_task, enrich_transactions_task] of transactions_count and
\* coinbase_transactions_count
CountDependenciesBlocksOnly == {EnrichId("blocks")}
CountDependencies == {EnrichId("blocks"), EnrichId("transactions")}

\* the calls build_load_dag makes after defining its three helpers, in order;
\* a dependency is the operator an earlier call returned
BuildCallsFor(c) ==
    <<LoadCall("blocks"),
      LoadCall("transactions"),
      EnrichCall("blocks", {LoadId("blocks")}),
      EnrichCall("transactions", {LoadId("transactions")}),
      EnrichCall("inputs", ViewDependencies),
      EnrichCall("outputs", ViewDependencies),
      VerifyCall("blocks_count", {EnrichId("blocks")}),
      VerifyCall("blocks_have_latest", {EnrichId("blocks")}),
      VerifyCall("transactions_count", CountDependencies),
      VerifyCall("transactions_have_latest", {EnrichId("transactions")})>>
    \o (IF IncludesFeesCheck(c)
        THEN <<VerifyCall("transactions_fees", {EnrichId("transactions")})>>
        ELSE <<>>)
    \o <<VerifyCall("coinbase_transactions_count", CountDependencies),
         VerifyCall("transaction_inputs_count", {EnrichId("transactions")}),
         VerifyCall("transaction_outputs_count", {EnrichId("transactions")})>>
    \o (IF IncludesEmptyChecks(c)
        THEN <<VerifyCall("transaction_inputs_count_empty", {EnrichId("transactions")}),
               VerifyCall("transaction_outputs_count_empty", {EnrichId("transactions")})>>
        ELSE <<>>)

BuildCallsOf == [c \in Chains |-> BuildCallsFor(c)]
BuildCalls(c) == BuildCallsOf[c]

VerifyRules ==
    {"blocks_count", "blocks_have_latest", "transactions_count",
     "transactions_have_latest", "transactions_fees",
     "coinbase_transactions_count", "transaction_inputs_count",
     "transaction_outputs_count", "transaction_inputs_count_empty",
     "transaction_outputs_count_empty"}

EnrichTasks == {"blocks", "transactions", "inputs", "outputs"}

SensorIds == {WaitId(e) : e \in RawEntities}
LoadIds == {LoadId(e) : e \in RawEntities}
EnrichIds == {EnrichId(t) : t \in EnrichTasks}
VerifyIds == {VerifyId(r) : r \in VerifyRules}
TaskIds == SensorIds \cup LoadIds \cup EnrichIds \cup VerifyIds

\* the ids of the operators a call creates
CreatedBy(call) ==
    IF call.op = "load" THEN {WaitId(call.task), LoadId(call.task)}
    ELSE IF call.op = "enrich" THEN {EnrichId(call.task)}
    ELSE {VerifyId(call.task)}

Built == build_pc > Len(BuildCalls(chain))

\* build_load_dag is making its calls (0: it is not running, or it raised)
Building == build_pc \in 1..Len(BuildCalls(chain))

NextCall == BuildCalls(chain)[build_pc]

\* a >> b
SetDownstream(upstream, ids, task_id) ==
    [upstream EXCEPT ![task_id] = @ \cup ids]

\* add_load_tasks without `wait_sensor >> load_operator`
add_load_tasks_unwired ==
    /\ Building
    /\ NextCall.op = "load"
    /\ dag_tasks' = dag_tasks \cup {WaitId(NextCall.task), LoadId(NextCall.task)}
    /\ build_pc' = build_pc + 1
    /\ UNCHANGED <<chain, dag_upstream, ti_state, try_number, flaky, missing_files,
                   gcs_object, load_jobs>>

\* add_load_tasks(task, file_format): the sensor, the load operator and
\* wait_sensor >> load_operator
add_load_tasks ==
    /\ Building
    /\ NextCall.op = "load"
    /\ dag_tasks' = dag_tasks \cup {WaitId(NextCall.task), LoadId(NextCall.task)}
    /\ dag_upstream' = SetDownstream(dag_upstream, {WaitId(NextCall.task)},
                                     LoadId(NextCall.task))
    /\ build_pc' = build_pc + 1
    /\ UNCHANGED <<chain, ti_state, try_number, flaky, missing_files, gcs_object, load_jobs>>

\* add_enrich_tasks(task, ..., dependencies): the enrich operator and
\* dependency >> enrich_operator for each dependency
add_enrich_tasks ==
    /\ Building
    /\ NextCall.op = "enrich"
    /\ dag_tasks' = dag_tasks \cup {EnrichId(NextCall.task)}
    /\ dag_upstream' = SetDownstream(dag_upstream, NextCall.dependencies,
                                     EnrichId(NextCall.task))
    /\ build_pc' = build_pc + 1
    /\ UNCHANGED <<chain, ti_state, try_number, flaky, missing_files, gcs_object, load_jobs>>

\* open(filepath) in read_file raises when the file is not there
FileMissing(task_id) == task_id \in missing_files

\* add_verify_tasks with the query file left to be read when the task runs
add_verify_tasks_unread ==
    /\ Building
    /\ NextCall.op = "verify"
    /\ dag_tasks' = dag_tasks \cup {VerifyId(NextCall.task)}
    /\ dag_upstream' = SetDownstream(dag_upstream, NextCall.dependencies,
                                     VerifyId(NextCall.task))
    /\ build_pc' = build_pc + 1
    /\ UNCHANGED <<chain, ti_state, try_number, flaky, missing_files, gcs_object, load_jobs>>

\* add_verify_tasks(task, dependencies): sql = read_file(sql_path,
\* environment) while the graph is built, then the verify operator and
\* dependency >> verify_task for each dependency; when read_file raises,
\* build_load_dag raises and returns no graph
add_verify_tasks ==
    /\ Building
    /\ NextCall.op = "verify"
    /\ IF FileMissing(VerifyId(NextCall.task))
       THEN /\ build_pc' = 0
            /\ UNCHANGED <<dag_tasks, dag_upstream>>
       ELSE /\ dag_tasks' = dag_tasks \cup {VerifyId(NextCall.task)}
            /\ dag_upstream' = SetDownstream(dag_upstream, NextCall.dependencies,
                                             VerifyId(NextCall.task))
            /\ build_pc' = build_pc + 1
    /\ UNCHANGED <<chain, ti_state, try_number, flaky, missing_files, gcs_object, load_jobs>>

(***************************************************************************)
(* One run of the task graph.  The orchestrator starts a task instance     *)
(* when all of its upstream instances have succeeded (the default trigger  *)
(* rule), retries a failed instance `retries` times, and marks the         *)
(* instances below a failed one upstream_failed.                           *)
(***************************************************************************)

\* default_dag_args['retries']
retries == 5

\* the tasks of the graph chain c builds
TasksOfChain ==
    [c \in Chains |->
        UNION {CreatedBy(BuildCalls(c)[i]) : i \in 1..Len(BuildCalls(c))}]
TasksOf(c) == TasksOfChain[c]

\* the fault scenarios of a run: no task fails, or the attempts of one task
\* can fail (for a sensor: its object is not there when the run starts); the
\* task is a sensor, a load, an enrichment or the verification with two
\* upstream tasks
FaultCandidates ==
    SensorIds \cup LoadIds \cup EnrichIds \cup {VerifyId("transactions_count")}

FlakyChoices(c) == {{}} \cup {{t} : t \in TasksOf(c) \cap FaultCandidates}

\* the configuration scenarios: every file is there, or the file of one task
\* is missing: resources/stages/raw/schemas/blocks.json of load_blocks,
\* resources/stages/enrich/sqls/transactions.sql of enrich_transactions, or
\* resources/stages/verify/sqls/transactions_count.sql
MissingFileChoices ==
    {{LoadId("blocks")}, {EnrichId("transactions")},
     {VerifyId("transactions_count")}}

InitDag ==
    /\ chain \in Chains
    /\ build_pc = 1
    /\ dag_tasks = {}
    /\ dag_upstream = [t \in TaskIds |-> {}]
    /\ ti_state = [t \in TaskIds |-> "none"]
    /\ try_number = [t \in TaskIds |-> 0]
    /\ \/ flaky \in FlakyChoices(chain) /\ missing_files = {}
       \/ flaky = {} /\ missing_files \in MissingFileChoices
    /\ gcs_object = [e \in RawEntities |-> WaitId(e) \notin flaky]
    /\ load_jobs = [e \in RawEntities |-> 0]
    \* nothing else runs
    /\ rf_pc = "idle" /\ rf_file = <<>> /\ rf_env = <<>>
    /\ rf_todo = {} /\ rf_content = <<>>
    /\ sc_pc = "idle" /\ sc_input = <<>> /\ sc_result = <<>>
    /\ run = <<>> /\ clock = 0 /\ temp_tables = <<>> /\ creator = <<>>
    /\ dest_tables = <<>> /\ raw_tables = <<>> /\ bq_jobs = {} /\ faults = 0

UpstreamDone(t) == \A u \in dag_upstream[t] : ti_state[u] = "success"

Runnable(t) ==
    /\ Built
    /\ t \in dag_tasks
    /\ ti_state[t] \in {"none", "up_for_retry"}
    /\ UpstreamDone(t)

\* the attempt ends without raising
Succeed(t) ==
    /\ ti_state' = [ti_state EXCEPT ![t] = "success"]
    /\ try_number' = [try_number EXCEPT ![t] = @ + 1]

\* the attempt raises: retried while retries are left, failed after that
Fail(t) ==
    /\ try_number' = [try_number EXCEPT ![t] = @ + 1]
    /\ ti_state' = [ti_state EXCEPT
                       ![t] = IF try_number[t] + 1 > retries
                              THEN "failed" ELSE "up_for_retry"]

\* the export of the scheduled date lands in the bucket
ExportArrives(e) ==
    /\ ~gcs_object[e]
    /\ gcs_object' = [gcs_object EXCEPT ![e] = TRUE]
    /\ UNCHANGED <<chain, build_pc, dag_tasks, dag_upstream,
                   ti_state, try_number, flaky, missing_files, load_jobs>>

\* GoogleCloudStorageObjectSensor wait_latest_{task}: succeeds when a poke
\* finds the object, raises when `timeout` passes without it
RunSensor(e) ==
    /\ Runnable(WaitId(e))
    /\ IF gcs_object[e] THEN Succeed(WaitId(e)) ELSE Fail(WaitId(e))
    /\ UNCHANGED <<chain, build_pc, dag_tasks, dag_upstream,
                   flaky, missing_files, gcs_object, load_jobs>>

\* load_task: the schema file is read, then the load job is submitted and
\* waited for
RunLoad(e) ==
    /\ Runnable(LoadId(e))
    /\ IF FileMissing(LoadId(e))
       THEN Fail(LoadId(e)) /\ UNCHANGED load_jobs
       ELSE /\ load_jobs' = [load_jobs EXCEPT ![e] = @ + 1]
            /\ \/ Succeed(LoadId(e))
               \/ LoadId(e) \in flaky /\ Fail(LoadId(e))
    /\ UNCHANGED <<chain, build_pc, dag_tasks, dag_upstream, flaky, missing_files, gcs_object>>

\* enrich_task, as one step of the run; it reads its description, schema and
\* sql files when it runs
RunEnrich(task) ==
    /\ Runnable(EnrichId(task))
    /\ IF FileMissing(EnrichId(task))
       THEN Fail(EnrichId(task))
       ELSE \/ Succeed(EnrichId(task))
            \/ EnrichId(task) \in flaky /\ Fail(EnrichId(task))
    /\ UNCHANGED <<chain, build_pc, dag_tasks, dag_upstream,
                   flaky, missing_files, gcs_object, load_jobs>>

\* BigQueryOperator verify_{task}: the query raises when its condition fails
RunVerify(rule) ==
    /\ Runnable(VerifyId(rule))
    /\ \/ Succeed(VerifyId(rule))
       \/ VerifyId(rule) \in flaky /\ Fail(VerifyId(rule))
    /\ UNCHANGED <<chain, build_pc, dag_tasks, dag_upstream,
                   flaky, missing_files, gcs_object, load_jobs>>

\* an instance whose upstream failed is never started
MarkUpstreamFailed(t) ==
    /\ Built
    /\ t \in dag_tasks
    /\ ti_state[t] = "none"
    /\ \E u \in dag_upstream[t] : ti_state[u] \in {"failed", "upstream_failed"}
    /\ ti_state' = [ti_state EXCEPT ![t] = "upstream_failed"]
    /\ UNCHANGED <<chain, build_pc, dag_tasks, dag_upstream,
                   try_number, flaky, missing_files, gcs_object, load_jobs>>

(***************************************************************************)
(* enrich_task: the staged materialization on the warehouse.               *)
(*                                                                         *)
(* run[i] is a task instance of an enrichment task: two instances are      *)
(* either the instances of one task in two active runs of the graph (the   *)
(* DAG sets no max_active_runs) or instances of two tasks that no edge     *)
(* orders.  A warehouse job takes effect in one step: a job either         *)
(* replaces its destination with its complete result or leaves it alone.   *)
(***************************************************************************)

\* job failures, timeouts and API errors injected while two instances run
MaxFaults == 1

Instances == {1, 2}

NoTask == "-"

\* the tasks of the two instances
Scenarios ==
    {<<"blocks", NoTask>>, <<"inputs", NoTask>>,
     <<"transactions", "transactions">>, <<"outputs", "outputs">>,
     <<"blocks", "transactions">>, <<"inputs", "outputs">>}

\* is_view=True of the inputs and outputs enrichments
is_view(task) == task \in {"inputs", "outputs"}

\* '{task}_{milliseconds}': two names are equal exactly when the task and the
\* timestamp are (no task name ends in an underscore and digits)
TempName(task, ms) == [task |-> task, ms |-> ms]
NoName == TempName(NoTask, 0)

\* the rows the enrichment query of a task selects
EnrichedRowsOf == [task \in EnrichTasks |-> "enriched_" \o task]
\* the enrichment sql of a view
ViewSqlOf == [task \in EnrichTasks |-> "sql_" \o task]

\* Table(temp_table_ref) with its schema (table mode) or view_query (view
\* mode), as create_table makes it: no rows yet
NewTempTable(task) ==
    IF is_view(task)
    THEN [kind |-> "VIEW", rows |-> <<>>, view_query |-> ViewSqlOf[task]]
    ELSE [kind |-> "TABLE", rows |-> <<>>, view_query |-> ""]

\* the complete version an enrichment produces
NewVersion(task) ==
    IF is_view(task)
    THEN [kind |-> "VIEW", rows |-> <<>>, view_query |-> ViewSqlOf[task]]
    ELSE [kind |-> "TABLE", rows |-> <<EnrichedRowsOf[task]>>, view_query |-> ""]

\* the complete version the destination holds before
PreviousVersion(task) ==
    IF is_view(task)
    THEN [kind |-> "VIEW", rows |-> <<>>, view_query |-> "previous"]
    ELSE [kind |-> "TABLE", rows |-> <<"previous">>, view_query |-> ""]

\* the raw table the load task has loaded, which the enrichment sql reads
LoadedVersion(e) == [kind |-> "TABLE", rows |-> <<"loaded_" \o e>>, view_query |-> ""]

\* '{}_blockchain', '{}_blockchain_raw', '{}_blockchain_temp' of the chain
dataset_name == "blockchain"
dataset_name_raw == "blockchain_raw"
dataset_name_temp == "blockchain_temp"

\* dest_table_ref = client.dataset(dataset_name, project=...).table('{task}')
DestTableRefInRaw(task) == [dataset |-> dataset_name_raw, table |-> task]
DestTableRef(task) == [dataset |-> dataset_name, table |-> task]

\* copy_job_config.write_disposition
WriteDispositionAppend == "WRITE_APPEND"
WriteDisposition == "WRITE_TRUNCATE"

\* the destination after a copy job from table source
Copied(destination, source) ==
    IF WriteDisposition = "WRITE_TRUNCATE" THEN source
    ELSE [source EXCEPT !.rows = destination.rows \o source.rows]

\* the temporary table after the query job (a query job with a destination
\* writes to it only when it is empty)
QueriedNothing(table, task) == table
Queried(table, task) == [table EXCEPT !.rows = <<EnrichedRowsOf[task]>>]

\* create_table raises Conflict when the table exists
CreateNeverConflicts(name) == FALSE
CreateConflicts(name) == name \in DOMAIN temp_tables

\* the step after create_table: the query job in table mode, the copy in view
\* mode
AfterCreateAlwaysCopy(task) == "copy"
AfterCreateAlwaysQuery(task) == "query"
AfterCreate(task) == IF is_view(task) THEN "copy" ELSE "query"

\* retries are left after a failed attempt number n
RetriesLeftOneLess(n) == n < retries
RetriesLeft(n) == n <= retries

FaultBudget == IF run[2].state = "absent" THEN retries + 1 ELSE MaxFaults
CanFault == faults < FaultBudget

InitEnrich ==
    /\ \E sc \in Scenarios :
          run = [i \in Instances |->
                   [task |-> sc[i],
                    state |-> IF sc[i] = NoTask THEN "absent" ELSE "none",
                    try_number |-> 0, pc |-> "-", temp_name |-> NoName]]
    /\ clock = 0
    /\ temp_tables = <<>>
    /\ creator = <<>>
    /\ dest_tables = [t \in EnrichTasks |-> PreviousVersion(t)]
    /\ raw_tables = [e \in RawEntities |-> LoadedVersion(e)]
    /\ bq_jobs = {}
    /\ faults = 0
    \* nothing else runs
    /\ rf_pc = "idle" /\ rf_file = <<>> /\ rf_env = <<>>
    /\ rf_todo = {} /\ rf_content = <<>>
    /\ sc_pc = "idle" /\ sc_input = <<>> /\ sc_result = <<>>
    /\ chain = "bitcoin" /\ build_pc = 0 /\ dag_tasks = {}
    /\ dag_upstream = <<>> /\ ti_state = <<>> /\ try_number = <<>>
    /\ flaky = {} /\ missing_files = {} /\ gcs_object = <<>> /\ load_jobs = <<>>

Execution(i) == <<i, run[i].try_number>>

\* the attempt raises: the instance is retried from the start, or failed
RaiseSwallowedByJobWait(i) ==
    [run EXCEPT ![i].pc = IF @ = "query_wait" THEN "copy"
                          ELSE IF @ = "copy_wait" THEN "delete" ELSE "-",
                ![i].state = IF run[i].pc \in {"query_wait", "copy_wait"}
                             THEN "running"
                             ELSE IF RetriesLeft(run[i].try_number)
                                  THEN "up_for_retry" ELSE "failed"]
Raise(i) ==
    [run EXCEPT ![i].pc = "-",
                ![i].state = IF RetriesLeft(run[i].try_number)
                             THEN "up_for_retry" ELSE "failed"]

WithKey(f, k, v) == [x \in DOMAIN f \cup {k} |-> IF x = k THEN v ELSE f[x]]
WithoutKeyKeepsAll(f, k) == f
WithoutKey(f, k) == [x \in DOMAIN f \ {k} |-> f[x]]

\* the orchestrator starts an attempt; enrich_table / enrich_view begin by
\* naming the temporary table after the clock, read in the millisecond of
\* the latest reading or in a later one, and later than the attempt before
\* (retry_delay)
StartAttempt(i) ==
    /\ run[i].state \in {"none", "up_for_retry"}
    /\ \E ms \in {clock, clock + 1} :
          /\ ms > run[i].temp_name.ms
          /\ clock' = ms
          /\ run' = [run EXCEPT ![i].state = "running",
                                ![i].try_number = @ + 1,
                                ![i].pc = "create",
                                ![i].temp_name = TempName(run[i].task, ms)]
    /\ UNCHANGED <<temp_tables, creator, dest_tables, raw_tables, bq_jobs, faults>>

\* an id other than the generated name, under which the warehouse can make
\* the table of an execution
OtherId(i) == [task |-> "other", ms |-> 10 * run[i].try_number + i]

\* assert table.table_id == temp_table_name
CreatedIdUnchecked(i, table_id) ==
    [run EXCEPT ![i].pc = AfterCreate(run[i].task)]
CreatedIdChecked(i, table_id) ==
    IF table_id = run[i].temp_name
    THEN [run EXCEPT ![i].pc = AfterCreate(run[i].task)]
    ELSE Raise(i)

\* table = client.create_table(table); assert table.table_id == temp_table_name
CreateTemp(i) ==
    /\ run[i].pc = "create"
    /\ LET name == run[i].temp_name
       IN  IF CreateConflicts(name)
           THEN /\ run' = Raise(i)
                /\ UNCHANGED <<temp_tables, creator, faults>>
           ELSE \* the table is made, under the name or under another id
                \/ \E table_id \in {name, OtherId(i)} :
                      /\ table_id # name => CanFault
                      /\ temp_tables' = WithKey(temp_tables, table_id,
                                                 NewTempTable(run[i].task))
                      /\ creator' = WithKey(creator, table_id, Execution(i))
                      /\ run' = CreatedIdChecked(i, table_id)
                      /\ faults' = IF table_id = name THEN faults ELSE faults + 1
                \* the call raises
                \/ /\ CanFault
                   /\ run' = Raise(i)
                   /\ faults' = faults + 1
                   /\ UNCHANGED <<temp_tables, creator>>
    /\ UNCHANGED <<clock, dest_tables, raw_tables, bq_jobs>>

Job(kind, i) ==
    [kind |-> kind, task |-> run[i].task, temp |-> run[i].temp_name,
     owner |-> Execution(i)]

\* query_job = client.query(sql, location='US', job_config=query_job_config)
SubmitQuery(i) ==
    /\ run[i].pc = "query"
    /\ bq_jobs' = bq_jobs \cup {Job("query", i)}
    /\ run' = [run EXCEPT ![i].pc = "query_wait"]
    /\ UNCHANGED <<clock, temp_tables, creator, dest_tables, raw_tables, faults>>

\* what a job does when it succeeds
JobEffect(job) ==
    IF job.kind = "query"
    THEN /\ temp_tables' = [temp_tables EXCEPT
                               ![job.temp] = Queried(@, job.task)]
         /\ UNCHANGED <<dest_tables, raw_tables>>
    ELSE /\ LET ref == DestTableRef(job.task)
            IN  IF ref.dataset = dataset_name
                THEN /\ dest_tables' = [dest_tables EXCEPT
                                           ![ref.table] = Copied(@, temp_tables[job.temp])]
                     /\ UNCHANGED raw_tables
                ELSE /\ raw_tables' = WithKey(raw_tables, ref.table,
                                              temp_tables[job.temp])
                     /\ UNCHANGED dest_tables
         /\ UNCHANGED temp_tables

\* submit_bigquery_job(query_job, ...): job.result() returns or raises;
\* assert query_job.state == 'DONE'
QueryJobEnds(i) ==
    /\ run[i].pc = "query_wait"
    /\ bq_jobs' = bq_jobs \ {Job("query", i)}
    /\ \/ /\ JobEffect(Job("query", i))
          /\ run' = [run EXCEPT ![i].pc = "copy"]
          /\ UNCHANGED faults
       \/ /\ CanFault
          /\ run' = Raise(i)
          /\ faults' = faults + 1
          /\ UNCHANGED <<temp_tables, dest_tables, raw_tables>>
    /\ UNCHANGED <<clock, creator>>

\* copy_job = client.copy_table(temp_table_ref, dest_table_ref, ...)
SubmitCopy(i) ==
    /\ run[i].pc = "copy"
    /\ bq_jobs' = bq_jobs \cup {Job("copy", i)}
    /\ run' = [run EXCEPT ![i].pc = "copy_wait"]
    /\ UNCHANGED <<clock, temp_tables, creator, dest_tables, raw_tables, faults>>

\* submit_bigquery_job(copy_job, ...); assert copy_job.state == 'DONE'
CopyJobEnds(i) ==
    /\ run[i].pc = "copy_wait"
    /\ bq_jobs' = bq_jobs \ {Job("copy", i)}
    /\ \/ /\ JobEffect(Job("copy", i))
          /\ run' = [run EXCEPT ![i].pc = "delete"]
          /\ UNCHANGED faults
       \/ /\ CanFault
          /\ run' = Raise(i)
          /\ faults' = faults + 1
          /\ UNCHANGED <<temp_tables, dest_tables, raw_tables>>
    /\ UNCHANGED <<clock, creator>>

\* client.delete_table(temp_table_ref), the last statement of the attempt
DeleteTemp(i) ==
    /\ run[i].pc = "delete"
    /\ \/ /\ temp_tables' = WithoutKey(temp_tables, run[i].temp_name)
          /\ creator' = WithoutKey(creator, run[i].temp_name)
          /\ run' = [run EXCEPT ![i].pc = "-", ![i].state = "success"]
          /\ UNCHANGED faults
       \/ /\ CanFault
          /\ run' = Raise(i)
          /\ faults' = faults + 1
          /\ UNCHANGED <<temp_tables, creator>>
    /\ UNCHANGED <<clock, dest_tables, raw_tables, bq_jobs>>

\* execution_timeout=timedelta(minutes=60) passes while the attempt waits
\* for a job: the attempt raises, the job stays in the warehouse
Timeout(i) ==
    /\ run[i].pc \in {"query_wait", "copy_wait"}
    /\ CanFault
    /\ run' = Raise(i)
    /\ faults' = faults + 1
    /\ UNCHANGED <<clock, temp_tables, creator, dest_tables, raw_tables, bq_jobs>>

Waited(job) ==
    \E i \in Instances :
        /\ run[i].pc \in {"query_wait", "copy_wait"}
        /\ job.owner = Execution(i)

\* a job nobody waits for any more ends, done or in error
AbandonedJobEnds(job) ==
    /\ job \in bq_jobs
    /\ ~Waited(job)
    /\ bq_jobs' = bq_jobs \ {job}
    /\ \/ JobEffect(job)
       \/ UNCHANGED <<temp_tables, dest_tables, raw_tables>>
    /\ UNCHANGED <<run, clock, creator, faults>>

(***************************************************************************)
(* Specifications                                                          *)
(***************************************************************************)

NextReadFile ==
    \/ \E key \in Keys : ReplaceKey(key) /\ UNCHANGED <<scVars, dagVars, enrVars>>
    \/ ReadFileReturn /\ UNCHANGED <<scVars, dagVars, enrVars>>

SpecReadFile ==
    InitReadFile /\ [][NextReadFile]_vars

NextSchema ==
    \/ SchemaReturn /\ UNCHANGED <<rfVars, dagVars, enrVars>>
    \/ SchemaRaise /\ UNCHANGED <<rfVars, dagVars, enrVars>>

SpecSchema ==
    InitSchema /\ [][NextSchema]_vars

NextDag ==
    \/ add_load_tasks /\ UNCHANGED <<rfVars, scVars, enrVars>>
    \/ add_enrich_tasks /\ UNCHANGED <<rfVars, scVars, enrVars>>
    \/ add_verify_tasks /\ UNCHANGED <<rfVars, scVars, enrVars>>
    \/ \E e \in RawEntities : ExportArrives(e) /\ UNCHANGED <<rfVars, scVars, enrVars>>
    \/ \E e \in RawEntities : RunSensor(e) /\ UNCHANGED <<rfVars, scVars, enrVars>>
    \/ \E e \in RawEntities : RunLoad(e) /\ UNCHANGED <<rfVars, scVars, enrVars>>
    \/ \E t \in EnrichTasks : RunEnrich(t) /\ UNCHANGED <<rfVars, scVars, enrVars>>
    \/ \E r \in VerifyRules : RunVerify(r) /\ UNCHANGED <<rfVars, scVars, enrVars>>
    \/ \E t \in TaskIds : MarkUpstreamFailed(t) /\ UNCHANGED <<rfVars, scVars, enrVars>>

SpecDag ==
    InitDag /\ [][NextDag]_vars

Next ==
    \/ \E i \in Instances : StartAttempt(i) /\ UNCHANGED <<rfVars, scVars, dagVars>>
    \/ \E i \in Instances : CreateTemp(i) /\ UNCHANGED <<rfVars, scVars, dagVars>>
    \/ \E i \in Instances : SubmitQuery(i) /\ UNCHANGED <<rfVars, scVars, dagVars>>
    \/ \E i \in Instances : QueryJobEnds(i) /\ UNCHANGED <<rfVars, scVars, dagVars>>
    \/ \E i \in Instances : SubmitCopy(i) /\ UNCHANGED <<rfVars, scVars, dagVars>>
    \/ \E i \in Instances : CopyJobEnds(i) /\ UNCHANGED <<rfVars, scVars, dagVars>>
    \/ \E i \in Instances : DeleteTemp(i) /\ UNCHANGED <<rfVars, scVars, dagVars>>
    \/ \E i \in Instances : Timeout(i) /\ UNCHANGED <<rfVars, scVars, dagVars>>
    \/ \E job \in bq_jobs : AbandonedJobEnds(job) /\ UNCHANGED <<rfVars, scVars, dagVars>>

Spec == InitEnrich /\ [][Next]_vars

(***************************************************************************)
(* Properties of read_file                                                 *)
(***************************************************************************)

\* the text in which every occurrence of a declared key's token in s is
\* replaced by the key's value, all at once, and nothing else is changed
RECURSIVE Substituted(_, _)
Substituted(s, env) ==
    IF s = <<>> THEN <<>>
    ELSE IF \E k \in DOMAIN env : StartsWithAt(s, 1, Token(k))
         THEN LET k == CHOOSE k \in DOMAIN env : StartsWithAt(s, 1, Token(k))
              IN  env[k] \o Substituted(SubSeq(s, Len(Token(k)) + 1, Len(s)), env)
         ELSE <<Head(s)>> \o Substituted(Tail(s), env)

BraceFree(s) == \A i \in 1..Len(s) : s[i] \notin {"{", "}"}

\* no value can form, or complete, the token of another declared key
NoInterference(env) ==
    \A j, k \in DOMAIN env :
        j # k => BraceFree(env[j]) /\ ~IsSubstring(env[j], k)

\* C9 as stated: for every environment and every template, read_file returns
\* the template with every occurrence of each declared key's token replaced
\* by the key's value and all other text untouched.
C9_SubstitutesForEveryEnvironment ==
    rf_pc = "done" => rf_content = Substituted(rf_file, rf_env)

\* C9 as amended: the same, for the environments in which no value holds a
\* brace or is a substring of another declared key (an environment of at most
\* one key is always one); with an empty environment the content is returned
\* unchanged.
C9_SubstitutesWithoutInterference ==
    rf_pc = "done" =>
        /\ NoInterference(rf_env) => rf_content = Substituted(rf_file, rf_env)
        /\ DOMAIN rf_env = {} => rf_content = rf_file

\* a template holding the token of a twice and the token of b, substituted
\* under an environment that declares both keys
C9_Witness ==
    /\ rf_pc = "done"
    /\ rf_file = Token(<<"a">>) \o Token(<<"a">>) \o Token(<<"b">>)
    /\ DOMAIN rf_env = Keys
    /\ NoInterference(rf_env)
    /\ rf_content = rf_env[<<"a">>] \o rf_env[<<"a">>] \o rf_env[<<"b">>]

(***************************************************************************)
(* Properties of the schema loader                                         *)
(***************************************************************************)

\* out has the fields of in, in the same order, and a field of out carries
\* nested fields exactly when the field of in is a RECORD with a non-empty
\* nested list, whose structure is preserved in turn
RECURSIVE StructurePreserved(_, _)
StructurePreserved(in, out) ==
    /\ Len(out) = Len(in)
    /\ \A i \in 1..Len(in) :
         /\ out[i].name = in[i].name
         /\ out[i].fields # <<>>
               <=> (Lower(in[i].type) = "record" /\ in[i].fields # <<>>)
         /\ out[i].fields # <<>> => StructurePreserved(in[i].fields, out[i].fields)

\* C10: for every schema description the loader returns a list with the same
\* number of fields in the same order at every depth, a field carrying nested
\* fields exactly when its description is a RECORD with a non-empty nested
\* list.
C10_ReturnsPreservedStructure ==
    sc_pc # "call" =>
        sc_pc = "returned" /\ StructurePreserved(sc_input, sc_result)

\* what the loader does keep: whenever it returns, the structure is preserved
SchemaPreservedOnReturn ==
    sc_pc = "returned" => StructurePreserved(sc_input, sc_result)

\* a field of out has the defaults where the field of in lacks the key, at
\* every depth the loader descends to
RECURSIVE DefaultsApplied(_, _)
DefaultsApplied(in, out) ==
    /\ Len(out) = Len(in)
    /\ \A i \in 1..Len(in) :
         /\ in[i].type = None => out[i].field_type = "STRING"
         /\ in[i].type # None => out[i].field_type = in[i].type
         /\ in[i].mode = None => out[i].mode = "NULLABLE"
         /\ in[i].mode # None => out[i].mode = in[i].mode
         /\ out[i].fields # <<>> => DefaultsApplied(in[i].fields, out[i].fields)

\* C11: the loader returns a field for every field object, of mode NULLABLE
\* when the mode is missing and of type STRING when the type is missing; it
\* does not fail on either.
C11_MissingModeAndTypeDefault ==
    sc_pc # "call" =>
        sc_pc = "returned" /\ DefaultsApplied(sc_input, sc_result)

\* what the loader does keep: a returned field has the mode NULLABLE when
\* the mode is missing, and no call on a field without a type returns
MissingModeDefaultsOnReturn ==
    sc_pc = "returned" =>
        /\ DefaultsApplied(sc_input, sc_result)
        /\ \A i \in 1..Len(sc_input) : sc_input[i].type # None

(***************************************************************************)
(* Properties of the task graph and of its run                             *)
(***************************************************************************)

Invoked(t) == try_number[t] > 0

\* the tasks from which t can be reached along the edges of the graph
RECURSIVE UpstreamClosure(_)
UpstreamClosure(ids) ==
    LET more == ids \cup UNION {dag_upstream[x] : x \in ids}
    IN  IF more = ids THEN ids ELSE UpstreamClosure(more)

Ancestors(t) == UpstreamClosure(dag_upstream[t])

Descendants(t) == {d \in TaskIds : t \in Ancestors(d)}

\* C3: no task is started before every declared upstream task has succeeded;
\* verify_transactions_count and verify_coinbase_transactions_count start only
\* after both enrich_blocks and enrich_transactions have succeeded; no task
\* below a permanently failed task is ever invoked.
C3_StartsOnlyAfterUpstreamSuccess ==
    /\ \A t \in TaskIds :
          Invoked(t) => \A u \in dag_upstream[t] : ti_state[u] = "success"
    /\ \A r \in {"transactions_count", "coinbase_transactions_count"} :
          Invoked(VerifyId(r)) =>
              /\ ti_state[EnrichId("blocks")] = "success"
              /\ ti_state[EnrichId("transactions")] = "success"
    /\ \A t \in TaskIds :
          ti_state[t] = "failed" => \A d \in Descendants(t) : ~Invoked(d)

\* enrich_blocks has failed for good with everything below it marked and
\* never invoked, while the transactions branch ran
C3_Witness ==
    /\ ti_state[EnrichId("blocks")] = "failed"
    /\ try_number[EnrichId("blocks")] = retries + 1
    /\ ti_state[VerifyId("transactions_count")] = "upstream_failed"
    /\ ti_state[VerifyId("coinbase_transactions_count")] = "upstream_failed"
    /\ ti_state[VerifyId("transactions_have_latest")] = "success"

ExcludedRules(c) ==
    IF c = "dogecoin" THEN {"transactions_fees"}
    ELSE IF c = "zcash" THEN {"transaction_inputs_count_empty",
                              "transaction_outputs_count_empty"}
    ELSE {}

\* C4: the graph of dogecoin has no verify_transactions_fees, the graph of
\* zcash neither verify_transaction_inputs_count_empty nor
\* verify_transaction_outputs_count_empty, every other verification task is
\* in the graph once it is built; an excluded task is never a node and never
\* gets a state in the run.
C4_ChainExclusions ==
    /\ \A r \in ExcludedRules(chain) :
          /\ VerifyId(r) \notin dag_tasks
          /\ ti_state[VerifyId(r)] = "none"
          /\ ~Invoked(VerifyId(r))
    /\ Built =>
          dag_tasks \cap VerifyIds
              = {VerifyId(r) : r \in VerifyRules \ ExcludedRules(chain)}

\* the run of the dogecoin graph has finished with every task succeeded
C4_Witness ==
    /\ chain = "dogecoin"
    /\ Built
    /\ \A t \in dag_tasks : ti_state[t] = "success"
    /\ Cardinality(dag_tasks \cap VerifyIds) = 9

\* C5: a load job is submitted only after the sensor of the same entity has
\* succeeded, which takes the object to be there; when the sensor has failed
\* for good the load task has not run, does not succeed, and no load job was
\* submitted.
C5_LoadOnlyAfterSensor ==
    \A e \in RawEntities :
        /\ load_jobs[e] > 0 => ti_state[WaitId(e)] = "success"
        /\ Invoked(LoadId(e)) => ti_state[WaitId(e)] = "success"
        /\ ti_state[WaitId(e)] = "success" => gcs_object[e]
        /\ ti_state[WaitId(e)] = "failed" =>
              /\ load_jobs[e] = 0
              /\ ti_state[LoadId(e)] \in {"none", "upstream_failed"}

\* the blocks object never came: the sensor timed out on every attempt and
\* the load of blocks is marked, while transactions were loaded
C5_Witness ==
    /\ ~gcs_object["blocks"]
    /\ ti_state[WaitId("blocks")] = "failed"
    /\ try_number[WaitId("blocks")] = retries + 1
    /\ ti_state[LoadId("blocks")] = "upstream_failed"
    /\ load_jobs["blocks"] = 0
    /\ load_jobs["transactions"] = 1

\* C6: the only declared upstream of enrich_inputs and of enrich_outputs is
\* enrich_transactions, no load task among them, and neither is started
\* before enrich_transactions has succeeded.
C6_ViewsDependOnTransactionsEnrichment ==
    \A v \in {"inputs", "outputs"} :
        /\ EnrichId(v) \in dag_tasks =>
              /\ dag_upstream[EnrichId(v)] = {EnrichId("transactions")}
              /\ dag_upstream[EnrichId(v)] \cap LoadIds = {}
        /\ Invoked(EnrichId(v)) => ti_state[EnrichId("transactions")] = "success"

\* both views were enriched, after a retried enrich_transactions
C6_Witness ==
    /\ try_number[EnrichId("transactions")] > 1
    /\ ti_state[EnrichId("transactions")] = "success"
    /\ ti_state[EnrichId("inputs")] = "success"
    /\ ti_state[EnrichId("outputs")] = "success"

\* only a task whose attempts can fail, or whose file is missing, fails
OnlyTheTaskOfTheFileFails ==
    \A t \in TaskIds :
        ti_state[t] \in {"up_for_retry", "failed"} => t \in flaky \cup missing_files

\* C17 as stated: build_load_dag never raises and builds every node, whatever
\* file is missing or malformed; a bad file fails only the task that uses
\* it, when it runs.
C17_ConfigErrorsAtExecutionTime ==
    /\ build_pc # 0
    /\ Built => dag_tasks = TasksOf(chain)
    /\ OnlyTheTaskOfTheFileFails

\* C17 as amended: a bad schema or query file of a load or enrichment task
\* shows when the task runs: the graph is built with all its nodes, the task
\* fails (the load before any load job is submitted) and no other task
\* does. A missing query file of a verification task shows while the graph
\* is built: build_load_dag raises, there is no graph and no task runs.
C17_ConfigErrorsOfLoadAndEnrichAtExecutionTime ==
    /\ Built => dag_tasks = TasksOf(chain)
    /\ OnlyTheTaskOfTheFileFails
    /\ \A t \in missing_files \cap (LoadIds \cup EnrichIds) :
          /\ ti_state[t] # "success"
          /\ build_pc # 0
    /\ \A e \in RawEntities :
          LoadId(e) \in missing_files => load_jobs[e] = 0
    /\ missing_files \cap VerifyIds # {} =>
          /\ ~Built
          /\ \A t \in TaskIds : ti_state[t] = "none" /\ try_number[t] = 0
    /\ build_pc = 0 => missing_files \cap VerifyIds # {}

\* the sql file of enrich_transactions is missing: the graph was built, the
\* task failed on each of its attempts, and the blocks branch went through
C17_Witness ==
    /\ missing_files = {EnrichId("transactions")}
    /\ Built
    /\ ti_state[EnrichId("transactions")] = "failed"
    /\ try_number[EnrichId("transactions")] = retries + 1
    /\ ti_state[EnrichId("inputs")] = "upstream_failed"
    /\ ti_state[VerifyId("blocks_count")] = "success"

ViewIds == {EnrichId("inputs"), EnrichId("outputs")}

\* the graph is as build_load_dag returns it, before anything has run
JustBuilt == Built /\ \A t \in TaskIds : ti_state[t] = "none"

\* C19: no verification task has enrich_inputs or enrich_outputs among the
\* tasks it depends on, directly or transitively; a verification task is
\* never held back or marked because of a view enrichment: once its own
\* upstream tasks have succeeded it can run whatever the state of the views.
C19_VerificationIndependentOfViews ==
    /\ JustBuilt =>
          \A v \in VerifyIds \cap dag_tasks : Ancestors(v) \cap ViewIds = {}
    /\ \A v \in VerifyIds \cap dag_tasks :
          /\ dag_upstream[v] \cap ViewIds = {}
          /\ (Built /\ UpstreamDone(v)) =>
                \/ Runnable(v)
                \/ ti_state[v] \in {"success", "failed"}
          /\ (ti_state[v] = "upstream_failed" /\ flaky \subseteq ViewIds) =>
                missing_files # {}

\* every verification task has succeeded while enrich_inputs has failed for
\* good and enrich_outputs has not started
C19_Witness ==
    /\ Built
    /\ \A v \in VerifyIds \cap dag_tasks : ti_state[v] = "success"
    /\ Cardinality(VerifyIds \cap dag_tasks) = 10
    /\ ti_state[EnrichId("inputs")] = "failed"
    /\ ti_state[EnrichId("outputs")] = "none"

BlocksBranch == {WaitId("blocks"), LoadId("blocks"), EnrichId("blocks")}

DependOnBlocks ==
    {VerifyId(r) : r \in {"blocks_count", "blocks_have_latest",
                          "transactions_count", "coinbase_transactions_count"}}

\* what a failure in the blocks branch must leave alone
TransactionsSide == TaskIds \ (BlocksBranch \cup DependOnBlocks)

\* C20: when wait_latest_blocks, load_blocks or enrich_blocks has failed for
\* good, the verification tasks below it, which are blocks_count,
\* blocks_have_latest, transactions_count and coinbase_transactions_count
\* and no others, are never run, and every other task outside the blocks
\* branch is neither failed nor marked: it waits, runs or has succeeded.
C20_BlocksFailureIsolated ==
    /\ JustBuilt =>
          \A b \in BlocksBranch :
              Descendants(b) \cap VerifyIds = DependOnBlocks
    /\ \A b \in BlocksBranch :
          ti_state[b] = "failed" =>
              /\ \A v \in DependOnBlocks :
                    try_number[v] = 0 /\ ti_state[v] \in {"none", "upstream_failed"}
              /\ \A t \in TransactionsSide \cap dag_tasks :
                    /\ ti_state[t] \in {"none", "success"}
                    /\ (ti_state[t] = "none" /\ UpstreamDone(t)) => Runnable(t)

\* load_blocks has failed for good: the four verifications below
\* enrich_blocks are marked, everything else outside the branch has succeeded
C20_Witness ==
    /\ ti_state[LoadId("blocks")] = "failed"
    /\ ti_state[EnrichId("blocks")] = "upstream_failed"
    /\ \A v \in DependOnBlocks : ti_state[v] = "upstream_failed"
    /\ \A t \in TransactionsSide \cap dag_tasks : ti_state[t] = "success"
    /\ Cardinality(TransactionsSide \cap dag_tasks) = 11

(***************************************************************************)
(* Properties of the staged materialization                                *)
(***************************************************************************)

\* C1: at every point of every execution, in table mode and in view mode and
\* whatever else runs, the destination table of a task holds the complete
\* version from before or the complete new version, which is what a reader
\* reading it at that point gets.
C1_DestinationNeverPartial ==
    \A t \in EnrichTasks :
        dest_tables[t] \in {PreviousVersion(t), NewVersion(t)}

\* blocks is replaced and its temporary table not yet deleted, while the
\* temporary table of transactions waits, empty, for its query job
C1_Witness ==
    /\ run[1].task = "blocks" /\ run[1].pc = "delete"
    /\ dest_tables["blocks"] = NewVersion("blocks")
    /\ run[2].task = "transactions" /\ run[2].pc = "query_wait"
    /\ temp_tables[run[2].temp_name].rows = <<>>
    /\ dest_tables["transactions"] = PreviousVersion("transactions")

\* C2: whenever an execution has succeeded, after any number of failed
\* attempts and of other executions of the task, the destination holds what
\* one successful execution leaves.
C2_IdempotentUnderRetry ==
    \A i \in Instances :
        run[i].state = "success" =>
            dest_tables[run[i].task] = NewVersion(run[i].task)

\* two runs of one task have succeeded, one of them on a retry
C2_Witness ==
    /\ run[1].task = "transactions" /\ run[2].task = "transactions"
    /\ run[1].state = "success" /\ run[2].state = "success"
    /\ run[1].try_number > 1
    /\ Cardinality(DOMAIN temp_tables) >= 1

\* the execution has created its temporary table and not yet deleted it
Holding(i) == run[i].pc \in {"query", "query_wait", "copy", "copy_wait", "delete"}

\* C7 as stated: any two distinct executions use distinct temporary table
\* names.
C7_AllNamesDistinct ==
    \A i, j \in Instances :
        (i # j /\ run[i].temp_name # NoName /\ run[j].temp_name # NoName)
            => run[i].temp_name # run[j].temp_name

OwnTemporaryTables ==
    /\ \A i \in Instances :
          Holding(i) =>
              /\ run[i].temp_name \in DOMAIN temp_tables
              /\ creator[run[i].temp_name] = Execution(i)
    /\ \A job \in bq_jobs :
          /\ job.temp \in DOMAIN temp_tables
          /\ creator[job.temp] = job.owner
    /\ \A i, j \in Instances :
          (i # j /\ Holding(i) /\ Holding(j))
              => run[i].temp_name # run[j].temp_name
    /\ \A i, j \in Instances :
          (i # j /\ run[i].task # run[j].task /\ run[i].temp_name # NoName)
              => run[i].temp_name # run[j].temp_name

FreshNameOnRetry ==
    \A i \in Instances :
        run'[i].try_number # run[i].try_number =>
            /\ run'[i].temp_name # run[i].temp_name
            /\ run'[i].temp_name.ms > run[i].temp_name.ms

\* C7 as amended: executions of different tasks and successive attempts of a
\* task instance use distinct names; two concurrent executions of one task
\* can generate the same name, and then never hold the table together (the
\* second creation raises); every table an execution populates, copies from
\* or deletes, and every table a job of it works on, was created by it.
C7_NoSharedTemporaryTable ==
    [](OwnTemporaryTables) /\ [][FreshNameOnRetry]_vars

\* two runs of one task named their table in the same millisecond: one holds
\* it, the creation of the other raised
C7_Witness ==
    /\ run[1].temp_name = run[2].temp_name
    /\ Holding(1)
    /\ run[2].state = "up_for_retry"
    /\ run[2].try_number = 1
    /\ faults = 0

Terminal(i) == run[i].state \in {"absent", "success", "failed"}

PcRank(pc) ==
    CASE pc = "create" -> 1 [] pc = "query" -> 2 [] pc = "query_wait" -> 3
      [] pc = "copy" -> 4 [] pc = "copy_wait" -> 5 [] pc = "delete" -> 6
      [] OTHER -> IF pc = "-" THEN 7 ELSE 0

Rank(r) == IF r.state = "none" THEN 0 ELSE 8 * r.try_number + PcRank(r.pc)

InstanceStep ==
    \E i \in Instances :
        \/ StartAttempt(i) \/ CreateTemp(i) \/ SubmitQuery(i) \/ QueryJobEnds(i)
        \/ SubmitCopy(i) \/ CopyJobEnds(i) \/ DeleteTemp(i) \/ Timeout(i)

RetryPolicyKept ==
    /\ \A i \in Instances :
          /\ run[i].try_number <= retries + 1
          /\ run[i].state = "failed" => run[i].try_number = retries + 1
          /\ run[i].state = "up_for_retry" =>
                run[i].try_number \in 1..retries /\ run[i].pc = "-"
    /\ (\A i \in Instances : Terminal(i)) \/ ENABLED InstanceStep

RestartsFromTheBeginning ==
    \A i \in Instances :
        run'[i] # run[i] =>
            /\ Rank(run'[i]) > Rank(run[i])
            /\ run[i].state \in {"none", "up_for_retry"} =>
                  /\ run'[i].state = "running"
                  /\ run'[i].try_number = run[i].try_number + 1
                  /\ run'[i].pc = "create"
                  /\ run'[i].temp_name \notin DOMAIN temp_tables
                        \/ creator[run'[i].temp_name][1] # i
            /\ run[i].state = "running" =>
                  /\ run'[i].try_number = run[i].try_number
                  /\ run'[i].state \in {"running", "success", "up_for_retry", "failed"}
                  /\ run'[i].state = "running" <=> run'[i].pc # "-"

\* C8: a failed attempt (a job error, an API error, a timeout) is followed by
\* a retry while fewer than 6 attempts were made and by the failed state
\* after the sixth; a retry starts at the creation of a temporary table it
\* has newly named, never at a later step; every step moves an instance
\* forward and some step is possible until every instance has succeeded or
\* failed.
C8_RetriedFromTheBeginning ==
    [](RetryPolicyKept) /\ [][RestartsFromTheBeginning]_vars

\* an instance has failed for good on its sixth attempt, leaving temporary
\* tables behind
C8_Witness ==
    /\ run[1].state = "failed"
    /\ run[1].try_number = retries + 1
    /\ Cardinality(DOMAIN temp_tables) >= 2

\* the enrichments built with is_view=True
ViewTasks == {"inputs", "outputs"}

\* the steps of an execution in the order of its mode; "-" is before the
\* first and after the last
StepOrder(task) ==
    IF task \in ViewTasks
    THEN {<<"-", "create">>, <<"create", "copy">>, <<"copy", "copy_wait">>,
          <<"copy_wait", "delete">>, <<"delete", "-">>}
    ELSE {<<"-", "create">>, <<"create", "query">>, <<"query", "query_wait">>,
          <<"query_wait", "copy">>, <<"copy", "copy_wait">>,
          <<"copy_wait", "delete">>, <<"delete", "-">>}

OperationsInOrder ==
    \A i \in Instances :
        run'[i].pc # run[i].pc =>
            \/ <<run[i].pc, run'[i].pc>> \in StepOrder(run[i].task)
            \* the attempt raised
            \/ run'[i].pc = "-" /\ run'[i].state \in {"up_for_retry", "failed"}

JobsInOrder ==
    /\ \A job \in bq_jobs :
          /\ job.kind = "query" =>
                /\ job.task \notin ViewTasks
                /\ job.temp \in DOMAIN temp_tables
          /\ job.kind = "copy" =>
                /\ job.temp \in DOMAIN temp_tables
                /\ job.task \notin ViewTasks =>
                      temp_tables[job.temp].rows = <<EnrichedRowsOf[job.task]>>
                /\ job.task \in ViewTasks =>
                      temp_tables[job.temp].view_query = ViewSqlOf[job.task]
    /\ \A i \in Instances :
          /\ run[i].task \in ViewTasks => run[i].pc \notin {"query", "query_wait"}
          /\ run[i].pc = "query_wait" =>
                \E job \in bq_jobs : job.kind = "query" /\ job.temp = run[i].temp_name
          /\ run[i].pc = "copy_wait" =>
                \E job \in bq_jobs : job.kind = "copy" /\ job.temp = run[i].temp_name

\* C12: an execution goes through create, query, copy, delete in table mode
\* and through create, copy, delete in view mode, where no query job is ever
\* submitted; a copy job is submitted only from a temporary table that exists
\* and, in table mode, that the finished query job has populated.
C12_OperationsInOrder ==
    [](JobsInOrder) /\ [][OperationsInOrder]_vars

\* the inputs view went through all its steps, the copy job of the outputs
\* view is under way from its temporary view
C12_Witness ==
    /\ run[1].task = "inputs" /\ run[1].state = "success"
    /\ run[2].task = "outputs" /\ run[2].pc = "copy_wait"
    /\ temp_tables[run[2].temp_name].kind = "VIEW"
    /\ dest_tables["inputs"] = NewVersion("inputs")

Raised(i) ==
    /\ run[i].state = "running"
    /\ run'[i].state \in {"up_for_retry", "failed"}

\* the next step of an execution is taken only when the call or the job
\* before it has ended without error
StepsOnlyAfterSuccess ==
    \A i \in Instances :
        LET name == run[i].temp_name
            task == run[i].task
        IN  /\ (run[i].pc = "create" /\ run'[i].pc # "create" /\ ~Raised(i)) =>
                  /\ name \notin DOMAIN temp_tables
                  /\ name \in DOMAIN temp_tables'
            /\ (run[i].pc = "query_wait" /\ run'[i].pc # "query_wait" /\ ~Raised(i)) =>
                  /\ run'[i].pc = "copy"
                  /\ Job("query", i) \in bq_jobs \ bq_jobs'
                  /\ temp_tables'[name].rows = <<EnrichedRowsOf[task]>>
            /\ (run[i].pc = "copy_wait" /\ run'[i].pc # "copy_wait" /\ ~Raised(i)) =>
                  /\ run'[i].pc = "delete"
                  /\ Job("copy", i) \in bq_jobs \ bq_jobs'
                  /\ dest_tables'[task] = temp_tables[name]

\* an attempt that raises does nothing more: it submits no job, leaves its
\* temporary table and the destinations as they are, and the instance goes
\* on only with a new attempt
RaisingEndsTheExecution ==
    \A i \in Instances :
        /\ Raised(i) =>
              /\ run'[i].pc = "-"
              /\ bq_jobs' \subseteq bq_jobs
              /\ dest_tables' = dest_tables
              /\ DOMAIN temp_tables \subseteq DOMAIN temp_tables'
              /\ \A n \in DOMAIN temp_tables : temp_tables'[n] = temp_tables[n]
        /\ (run[i].state \in {"up_for_retry", "failed"} /\ run'[i] # run[i]) =>
              /\ run[i].state = "up_for_retry"
              /\ run'[i].try_number = run[i].try_number + 1
              /\ run'[i].pc = "create"

\* a running execution waits for the job it has submitted
WaitsForItsJob ==
    \A job \in bq_jobs :
        LET i == job.owner[1]
        IN  (Execution(i) = job.owner /\ run[i].state = "running") =>
                run[i].pc = IF job.kind = "query" THEN "query_wait" ELSE "copy_wait"

\* C13: an execution waits for every job it submits and goes on to the next
\* step only when the job (or create_table) has ended without errors; when
\* it reports errors the attempt raises there, and neither the copy nor the
\* deletion nor any other step of that execution follows.
C13_JobsWaitedAndChecked ==
    [](WaitsForItsJob) /\ [][StepsOnlyAfterSuccess /\ RaisingEndsTheExecution]_vars

\* the copy job of blocks ended in error: the attempt raised, its populated
\* temporary table is still there and the destination is as before
C13_Witness ==
    /\ run[1].task = "blocks" /\ run[2].state = "absent"
    /\ run[1].state = "up_for_retry" /\ run[1].try_number = 1
    /\ faults = 1 /\ bq_jobs = {}
    /\ run[1].temp_name \in DOMAIN temp_tables
    /\ temp_tables[run[1].temp_name].rows = <<EnrichedRowsOf["blocks"]>>
    /\ dest_tables["blocks"] = PreviousVersion("blocks")

\* a step that changes a table outside the temporary dataset is the end of a
\* copy job, which replaces the destination of its own task with its
\* temporary table and changes nothing else
OnlyCopyWritesDestination ==
    (dest_tables' # dest_tables \/ raw_tables' # raw_tables) =>
        /\ raw_tables' = raw_tables
        /\ \E job \in bq_jobs \ bq_jobs' :
              /\ job.kind = "copy"
              /\ job.task = run[job.owner[1]].task
              /\ dest_tables'[job.task] = temp_tables[job.temp]
              /\ \A t \in EnrichTasks \ {job.task} :
                    dest_tables'[t] = dest_tables[t]

\* create_table, the query job and delete_table change the temporary
\* dataset only
OtherStepsLeaveDestination ==
    /\ \A i \in Instances :
          (run[i].pc \in {"-", "create", "query", "query_wait", "copy", "delete"}
              /\ run'[i] # run[i])
                => dest_tables' = dest_tables /\ raw_tables' = raw_tables
    /\ temp_tables' # temp_tables =>
          dest_tables' = dest_tables /\ raw_tables' = raw_tables

\* C14: the destination tables and the raw tables change only when a copy
\* job ends, and then only the destination of the task that submitted the
\* copy; creating the temporary table, the query job and deleting the
\* temporary table leave every destination and every raw table unchanged.
C14_OnlyCopyMutatesDestination ==
    [][OnlyCopyWritesDestination /\ OtherStepsLeaveDestination]_vars

\* blocks was enriched to the end and transactions up to its copy: only the
\* destination of blocks has changed
C14_Witness ==
    /\ run[1].task = "blocks" /\ run[1].state = "success"
    /\ run[2].task = "transactions" /\ run[2].pc = "copy"
    /\ dest_tables = [t \in EnrichTasks |->
                         IF t = "blocks" THEN NewVersion(t) ELSE PreviousVersion(t)]
    /\ raw_tables = [e \in RawEntities |-> LoadedVersion(e)]
    /\ run[1].temp_name \notin DOMAIN temp_tables

\* the executions of instance i that have ended by raising
FailedExecutionsOf(i) ==
    IF run[i].state \in {"running", "success"} THEN run[i].try_number - 1
    ELSE run[i].try_number

\* the temporary tables whose creator is not running any more
LeftBehind ==
    {n \in DOMAIN temp_tables :
        LET i == creator[n][1]
        IN  ~(run[i].state = "running" /\ Execution(i) = creator[n])}

TemporaryTablesAccounted ==
    /\ \A n \in DOMAIN temp_tables :
          LET i == creator[n][1]
          IN  ~(run[i].state = "success" /\ Execution(i) = creator[n])
    /\ Cardinality(LeftBehind)
          <= FailedExecutionsOf(1) + FailedExecutionsOf(2)

FailedJobLeavesOrphan ==
    /\ \A i \in Instances :
          /\ (Raised(i) /\ run[i].pc \in {"query_wait", "copy_wait"}) =>
                /\ run[i].temp_name \in DOMAIN temp_tables'
                /\ creator'[run[i].temp_name] = Execution(i)
          /\ (run[i].pc = "delete" /\ run'[i].state = "success") =>
                /\ run[i].temp_name \in DOMAIN temp_tables
                /\ run[i].temp_name \notin DOMAIN temp_tables'
    /\ \A n \in LeftBehind : n \in DOMAIN temp_tables'

\* C15: no temporary table created by an execution that succeeded exists; an
\* execution whose query or copy job fails raises and leaves its temporary
\* table, which nothing deletes later; the temporary tables left behind are
\* never more than the executions that failed.
C15_TemporaryTableCleanup ==
    [](TemporaryTablesAccounted) /\ [][FailedJobLeavesOrphan]_vars

\* blocks succeeded on its third attempt: its table is deleted, those of the
\* two failed attempts are left
C15_Witness ==
    /\ run[1].task = "blocks" /\ run[2].state = "absent"
    /\ run[1].state = "success" /\ run[1].try_number = 3
    /\ run[1].temp_name \notin DOMAIN temp_tables
    /\ Cardinality(DOMAIN temp_tables) = 2

\* the tables the warehouse made under an id other than the generated name
Mismatched == {n \in DOMAIN temp_tables : n.task = "other"}

MismatchIsFatal ==
    \A i \in Instances :
        (run[i].pc = "create"
            /\ \E n \in DOMAIN temp_tables' \ DOMAIN temp_tables :
                  n # run[i].temp_name /\ creator'[n] = Execution(i))
        => /\ Raised(i)
           /\ run'[i].pc = "-"
           /\ bq_jobs' = bq_jobs
           /\ dest_tables' = dest_tables

MismatchedNeverUsed ==
    \A n \in Mismatched :
        LET i == creator[n][1]
        IN  /\ ~(run[i].state \in {"running", "success"} /\ Execution(i) = creator[n])
            /\ \A job \in bq_jobs : job.owner # creator[n] /\ job.temp # n
            /\ temp_tables[n] = NewTempTable(run[i].task)

\* C16: when create_table returns a table whose id is not the generated
\* name, the execution raises there: it submits no query job and no copy
\* job, and the destination stays as it is.
C16_CreatedIdMismatchIsFatal ==
    [](MismatchedNeverUsed) /\ [][MismatchIsFatal]_vars

\* the first attempt of blocks got a table under another id and raised
C16_Witness ==
    /\ run[1].task = "blocks" /\ run[2].state = "absent"
    /\ run[1].state = "up_for_retry" /\ run[1].try_number = 1
    /\ Mismatched # {}
    /\ run[1].temp_name \notin DOMAIN temp_tables
    /\ bq_jobs = {}
    /\ dest_tables["blocks"] = PreviousVersion("blocks")

\* the destination of a task is replaced, in this step, by the copy job of an
\* attempt that goes on to delete its temporary table
ReplacedByAttemptReachingDelete(t) ==
    \E i \in Instances :
        /\ run[i].task = t
        /\ run[i].pc = "copy_wait"
        /\ run'[i].pc = "delete"

FailingStepLeavesDestination ==
    \A i \in Instances : Raised(i) => dest_tables' = dest_tables

RetrySucceedsAsOneRun ==
    \A i \in Instances :
        (run[i].state = "success" /\ run[i].try_number > 1) =>
            dest_tables[run[i].task] = NewVersion(run[i].task)

\* C18 as stated: an attempt that fails at create_table, at the query job or
\* at the copy job leaves the destination as it was; the destination is
\* replaced only by an attempt whose copy succeeded, which can then fail
\* only in delete_table; a successful retry leaves the destination as one
\* successful run does.
C18_OnlyDeleteFailureLeavesDestinationReplaced ==
    /\ [][FailingStepLeavesDestination]_vars
    /\ [][\A t \in EnrichTasks :
             dest_tables'[t] # dest_tables[t] => ReplacedByAttemptReachingDelete(t)]_vars
    /\ [](RetrySucceedsAsOneRun)

\* the destination of a task is replaced, in this step, by the copy job of an
\* attempt that was timed out while it waited for the job
ReplacedByAbandonedCopy(t) ==
    \E job \in bq_jobs \ bq_jobs' :
        /\ job.kind = "copy" /\ job.task = t
        /\ ~Waited(job)
        /\ run[job.owner[1]].task = t
        /\ Execution(job.owner[1]) # job.owner
              \/ run[job.owner[1]].state \in {"up_for_retry", "failed"}

\* C18 as amended: an attempt that fails at create_table, at the query job or
\* by an error of the copy job leaves the destination as it was; the
\* destination is replaced, always by the complete new version, by an
\* attempt whose copy succeeded (which can then fail only in delete_table)
\* or by the copy job of an attempt that was timed out while waiting for
\* it; a successful retry leaves the destination as one successful run does.
C18_FailedAttemptsAndDestination ==
    /\ [][FailingStepLeavesDestination]_vars
    /\ [][\A t \in EnrichTasks :
             dest_tables'[t] # dest_tables[t] =>
                 /\ dest_tables'[t] = NewVersion(t)
                 /\ ReplacedByAttemptReachingDelete(t) \/ ReplacedByAbandonedCopy(t)]_vars
    /\ [](RetrySucceedsAsOneRun)

\* the first attempt of blocks was timed out waiting for its copy job, which
\* is still under way when the second attempt has succeeded
C18_Witness ==
    /\ run[1].task = "blocks" /\ run[2].state = "absent"
    /\ run[1].state = "success" /\ run[1].try_number = 2
    /\ \E job \in bq_jobs : job.kind = "copy" /\ job.owner = <<1, 1>>
    /\ dest_tables["blocks"] = NewVersion("blocks")

=============================================================================
